---- MODULE Spec2Model ----
(***************************************************************************)
(* The query object of the document-database client (DocumentQueryBase,    *)
(* DocumentQuery) as a state machine: its paging and statistics fields,    *)
(* its parameter table, the calls its query builder has received, and the  *)
(* terminal calls (single, first, count, all) in flight on it.             *)
(***************************************************************************)
EXTENDS Integers, Sequences, FiniteSets, TLC

(* ------------------------------ bounds --------------------------------- *)
MaxResults == 2
MaxTokens == 2
NumSlots == 2

(* ------------------------- program constants --------------------------- *)
MAX_INT32 == 2147483647

VARIABLES
  _take,            \* DocumentQueryBase._take
  _skip,            \* DocumentQueryBase._skip
  withStatistics,   \* DocumentQueryBase.withStatistics
  queryParameters,  \* DocumentQueryBase.queryParameters, in insertion order
  _builder,         \* the calls DocumentQueryBase._builder has received
  calls,            \* the terminal calls on this query object, by slot
  lastCall,         \* the last fluent call made on the query object
  indexQueryOptions,  \* DocumentQueryBase.indexQueryOptions
  returned,         \* what the last getIndexQuery() call found and returned
  lastWait,         \* the last waitForNonStaleResults* call made on the query object
  _indexName,       \* DocumentQueryBase._indexName
  _collectionName,  \* DocumentQueryBase._collectionName
  created,          \* the options the query object was created with
  command,          \* the fields of a RavenCommand
  commandCall       \* the last operation on the command and what it returned

nameVars == <<_indexName, _collectionName, created>>
commandVars == <<command, commandCall>>

vars == <<_take, _skip, withStatistics, queryParameters, _builder, calls, lastCall,
          indexQueryOptions, returned, lastWait, nameVars, commandVars>>

(* ------------------------------ values --------------------------------- *)
(* A JavaScript value is a record tagged with its type.                    *)
Null == [t |-> "null", v |-> "null"]
Undefined == [t |-> "undefined", v |-> "undefined"]
Num(n) == [t |-> "number", v |-> n]
Str(s) == [t |-> "string", v |-> s]
Bool(b) == [t |-> "boolean", v |-> b]
DateOf(s) == [t |-> "date", v |-> s]
Obj == [t |-> "object", v |-> "{}"]
Arr(s) == [t |-> "array", v |-> s]

isNull(x) == x = Null \/ x = Undefined

Truthy(x) ==
  /\ ~isNull(x)
  /\ x # Bool(FALSE)
  /\ x # Num(0)
  /\ x # Str("")

Slots == 1..NumSlots

(* --------------------------- query builder ----------------------------- *)
Token(method, fieldName, params, exact) ==
  [method |-> method, fieldName |-> fieldName, params |-> params, exact |-> exact]

RECURSIVE NestsCorrectly(_, _)
NestsCorrectly(tokens, depth) ==
  IF tokens = <<>> THEN depth = 0
  ELSE LET m == Head(tokens).method IN
       IF m = "openSubclause" THEN NestsCorrectly(Tail(tokens), depth + 1)
       ELSE IF m = "closeSubclause"
            THEN depth > 0 /\ NestsCorrectly(Tail(tokens), depth - 1)
            ELSE NestsCorrectly(Tail(tokens), depth)

(* QueryBuilder.toString(): the rendered text is the token sequence; an    *)
(* unbalanced nesting of subclauses is surfaced when rendering.            *)
BuilderToString(tokens) ==
  IF NestsCorrectly(tokens, 0)
  THEN [threw |-> FALSE, text |-> tokens]
  ELSE [threw |-> TRUE, text |-> <<>>]

(* --------------------------- parameter table --------------------------- *)
Keys(params) == {params[i].name : i \in 1..Len(params)}

ValueOf(params, name) ==
  LET i == CHOOSE j \in 1..Len(params) : params[j].name = name
  IN  params[i].value

(* DocumentQueryParameters.toJson(): a plain object, key -> value.         *)
toJson(params) == [k \in Keys(params) |-> ValueOf(params, k)]

(* ----------------------------- descriptor ------------------------------ *)
(* getIndexQuery that takes a falsy take or skip for an absent one.        *)
getIndexQueryTruthy(tokens, params, tk, sk) ==
  LET rendered == BuilderToString(tokens)
      skip0 == IF Truthy(sk) THEN sk.v ELSE 0
      take0 == IF Truthy(tk) THEN tk.v ELSE MAX_INT32
  IN  [threw |-> rendered.threw,
       query |-> rendered.text,
       queryParameters |-> toJson(params),
       take |-> take0,
       skip |-> skip0]

getIndexQuery(tokens, params, tk, sk) ==
  LET rendered == BuilderToString(tokens)
      skip0 == IF ~isNull(sk) THEN sk.v ELSE 0
      take0 == IF ~isNull(tk) THEN tk.v ELSE MAX_INT32
  IN  [threw |-> rendered.threw,
       query |-> rendered.text,
       queryParameters |-> toJson(params),
       take |-> take0,
       skip |-> skip0]

(* ------------------------- response envelopes -------------------------- *)
Docs == {"a", "p", "x"}
StaleVals == {Bool(TRUE), Bool(FALSE)}
(* What an envelope holds besides its Results and IsStale.                 *)
Extras ==
  {[Includes |-> <<>>, TotalResults |-> Undefined],
   [Includes |-> <<"i">>, TotalResults |-> Num(2)]}

RECURSIVE SeqsUpTo(_, _)
SeqsUpTo(S, n) ==
  IF n = 0 THEN {<<>>}
  ELSE LET shorter == SeqsUpTo(S, n - 1)
       IN  shorter \cup {Append(s, x) : s \in shorter, x \in S}

Envelope(results, includes, total, stale) ==
  [Results |-> results, Includes |-> includes, TotalResults |-> total, IsStale |-> stale]

Envelopes ==
  {Envelope(r, x.Includes, x.TotalResults, s) :
     r \in SeqsUpTo(Docs, MaxResults), x \in Extras, s \in StaleVals}

(* The envelope executeQuery makes up for a null response.                 *)
EmptyEnvelope == Envelope(<<>>, <<>>, Undefined, Undefined)

(* What requestExecutor.execute(command) settles to.                       *)
Responses ==
  {[kind |-> "envelope", body |-> e] : e \in Envelopes}
    \cup {[kind |-> "null", body |-> EmptyEnvelope],
          [kind |-> "rejected", body |-> EmptyEnvelope]}

NoResponse == [kind |-> "none", body |-> EmptyEnvelope]

(* ------------------------------ outcomes ------------------------------- *)
Resolved(value) == [status |-> "resolved", value |-> value, error |-> "none"]
Rejected(error) == [status |-> "rejected", value |-> Undefined, error |-> error]
Pending == [status |-> "pending", value |-> Undefined, error |-> "none"]

StaleError == "ErrorResponseException: The index is still stale after reached the timeout"
NoResultsError == "InvalidOperationException: There's no results corresponding to given query criteria."
MoreThanOneError == "InvalidOperationException: There's more than one result corresponding to given query criteria."

(* ------------------------------- events -------------------------------- *)
EVENT_DOCUMENTS_QUERIED == "queried:documents"
EVENT_DOCUMENT_FETCHED == "fetched:document"
EVENT_INCLUDES_FETCHED == "fetched:includes"

Event(name, payload) == [name |-> name, payload |-> payload]

(* --------------------------- conventions ------------------------------- *)
tryFetchResults(envelope) == envelope.Results
tryFetchIncludes(envelope) == envelope.Includes
checkIsProjection(doc) == doc = "p"
Convertible(doc) == doc # "x"
Entity(doc) == [t |-> "entity", v |-> doc]
convertToDocument(doc) == [rawEntity |-> doc, document |-> Entity(doc)]

(* ------------------------------ the calls ------------------------------ *)
Fields(tk, sk, ws) == [take |-> tk, skip |-> sk, withStatistics |-> ws]

(* The parameter table and the builder calls, as a call finds them.        *)
Bindings == [queryParameters |-> queryParameters, _builder |-> _builder]

(* The names of the notifications in a log.                                *)
Names(events) == [i \in 1..Len(events) |-> events[i].name]

IdleCall ==
  [kind |-> "none", pc |-> "idle", hasCallback |-> FALSE,
   before |-> Fields(Null, Null, Null), saved |-> Fields(Null, Null, Null),
   bindings |-> [queryParameters |-> <<>>, _builder |-> <<>>],
   events |-> <<>>, commands |-> <<>>, trace |-> <<>>, response |-> NoResponse,
   executed |-> [status |-> "pending", envelope |-> EmptyEnvelope, error |-> "none"],
   outcome |-> Pending, callbackLog |-> <<>>]

NoCallInFlight == \A s \in Slots : calls[s].pc = "idle"

FreeSlots == {s \in Slots : calls[s].pc = "idle"}
FreeSlot == CHOOSE s \in FreeSlots : \A r \in FreeSlots : s <= r

(* ---------------------------- executeQuery ------------------------------ *)
ExecOk(envelope) == [status |-> "resolved", envelope |-> envelope, error |-> "none"]
ExecFailed(error) == [status |-> "rejected", envelope |-> EmptyEnvelope, error |-> error]

(* executeQueryThen without the staleness branch.                          *)
executeQueryThenNoStale(response) ==
  IF response.kind = "rejected" THEN ExecFailed("execution rejected")
  ELSE IF response.kind = "null" THEN ExecOk(EmptyEnvelope)
  ELSE ExecOk(response.body)

(* The handler executeQuery attaches to requestExecutor.execute(command).  *)
executeQueryThen(response) ==
  IF response.kind = "rejected" THEN ExecFailed("execution rejected")
  ELSE IF response.kind = "null" THEN ExecOk(EmptyEnvelope)
  ELSE IF Truthy(response.body.IsStale) THEN ExecFailed(StaleError)
  ELSE ExecOk(response.body)

(* executeQuery that notifies its observers after submitting the command.  *)
executeQueryEmitAfter(tokens, params, tk, sk, fault) ==
  LET query == getIndexQuery(tokens, params, tk, sk)
      thrown == IF query.threw THEN "render threw"
                ELSE IF fault = "submit" THEN "submit threw"
                ELSE IF fault = "observer" THEN "observer threw"
                ELSE "none"
      queryCommand == [query |-> query.query,
                       queryParameters |-> query.queryParameters,
                       take |-> query.take, skip |-> query.skip]
      submits == thrown # "render threw"
      emits == thrown \in {"observer threw", "none"}
  IN  [thrown |-> thrown,
       events |-> IF emits THEN <<Event(EVENT_DOCUMENTS_QUERIED, Undefined)>> ELSE <<>>,
       commands |-> IF submits THEN <<queryCommand>> ELSE <<>>,
       trace |-> (IF submits THEN <<"execute">> ELSE <<>>)
                   \o (IF emits THEN <<EVENT_DOCUMENTS_QUERIED>> ELSE <<>>)]

(* executeQuery that submits the command a second time.                    *)
executeQuerySubmitsTwice(tokens, params, tk, sk, fault) ==
  LET query == getIndexQuery(tokens, params, tk, sk)
      thrown == IF fault = "observer" THEN "observer threw"
                ELSE IF query.threw THEN "render threw"
                ELSE IF fault = "submit" THEN "submit threw"
                ELSE "none"
      queryCommand == [query |-> query.query,
                       queryParameters |-> query.queryParameters,
                       take |-> query.take, skip |-> query.skip]
      submits == thrown \notin {"observer threw", "render threw"}
  IN  [thrown |-> thrown,
       events |-> <<Event(EVENT_DOCUMENTS_QUERIED, Undefined)>>,
       commands |-> IF submits THEN <<queryCommand, queryCommand>> ELSE <<>>,
       trace |-> <<EVENT_DOCUMENTS_QUERIED>>
                   \o (IF submits THEN <<"execute", "execute">> ELSE <<>>)]

(* The synchronous part of executeQuery: the 'documents queried' event,    *)
(* the descriptor, the command and its submission. fault is what the       *)
(* observer and the execution layer do: "observer" (the observer throws),  *)
(* "submit" (execute throws synchronously) or "none".                      *)
executeQuery(tokens, params, tk, sk, fault) ==
  LET query == getIndexQuery(tokens, params, tk, sk)
      thrown == IF fault = "observer" THEN "observer threw"
                ELSE IF query.threw THEN "render threw"
                ELSE IF fault = "submit" THEN "submit threw"
                ELSE "none"
      queryCommand == [query |-> query.query,
                       queryParameters |-> query.queryParameters,
                       take |-> query.take, skip |-> query.skip]
      submits == thrown \notin {"observer threw", "render threw"}
  IN  [thrown |-> thrown,
       events |-> <<Event(EVENT_DOCUMENTS_QUERIED, Undefined)>>,
       commands |-> IF submits THEN <<queryCommand>> ELSE <<>>,
       trace |-> <<EVENT_DOCUMENTS_QUERIED>> \o (IF submits THEN <<"execute">> ELSE <<>>)]

(* ---------------------- convertResponseToDocuments --------------------- *)
Pair(results, response) ==
  [t |-> "pair", v |-> [results |-> results, response |-> response]]

(* ConvertEach that notifies for projections too.                          *)
RECURSIVE ConvertEachNotifyAll(_)
ConvertEachNotifyAll(docs) ==
  IF docs = <<>> THEN [threw |-> FALSE, results |-> <<>>, events |-> <<>>]
  ELSE LET d == Head(docs) IN
       IF ~Convertible(d)
       THEN [threw |-> TRUE, results |-> <<>>, events |-> <<>>]
       ELSE LET rest == ConvertEachNotifyAll(Tail(docs))
            IN  [threw |-> rest.threw,
                 results |-> <<convertToDocument(d).document>> \o rest.results,
                 events |-> <<Event(EVENT_DOCUMENT_FETCHED, convertToDocument(d))>>
                              \o rest.events]

RECURSIVE ConvertEach(_)
ConvertEach(docs) ==
  IF docs = <<>> THEN [threw |-> FALSE, results |-> <<>>, events |-> <<>>]
  ELSE LET d == Head(docs) IN
       IF ~Convertible(d)
       THEN [threw |-> TRUE, results |-> <<>>, events |-> <<>>]
       ELSE LET rest == ConvertEach(Tail(docs))
                fetched == IF ~checkIsProjection(d)
                           THEN <<Event(EVENT_DOCUMENT_FETCHED, convertToDocument(d))>>
                           ELSE <<>>
            IN  [threw |-> rest.threw,
                 results |-> <<convertToDocument(d).document>> \o rest.results,
                 events |-> fetched \o rest.events]

(* convertResponseToDocuments that reports the includes whether or not    *)
(* there are results.                                                      *)
convertResponseToDocumentsIncludesAlways(response, ws) ==
  LET responseResults == tryFetchResults(response)
      conv == ConvertEach(responseResults)
      responseIncludes == tryFetchIncludes(response)
      included == IF Len(responseIncludes) > 0
                  THEN <<Event(EVENT_INCLUDES_FETCHED, responseIncludes)>>
                  ELSE <<>>
  IN  IF conv.threw
      THEN [threw |-> TRUE, result |-> Undefined, events |-> conv.events]
      ELSE [threw |-> FALSE,
            result |-> IF Len(responseResults) > 0 /\ Truthy(ws)
                       THEN Pair(conv.results, response)
                       ELSE Arr(conv.results),
            events |-> conv.events \o included]

convertResponseToDocuments(response, ws) ==
  LET responseResults == tryFetchResults(response) IN
  IF Len(responseResults) > 0
  THEN LET conv == ConvertEach(responseResults)
           responseIncludes == tryFetchIncludes(response)
           included == IF Len(responseIncludes) > 0
                       THEN <<Event(EVENT_INCLUDES_FETCHED, responseIncludes)>>
                       ELSE <<>>
       IN  IF conv.threw
           THEN [threw |-> TRUE, result |-> Undefined, events |-> conv.events]
           ELSE [threw |-> FALSE,
                 result |-> IF Truthy(ws) THEN Pair(conv.results, response)
                            ELSE Arr(conv.results),
                 events |-> conv.events \o included]
  ELSE [threw |-> FALSE, result |-> Arr(<<>>), events |-> <<>>]

(* results.length and _.first(results) of what the conversion returned.    *)
length(x) == IF x.t = "array" THEN Num(Len(x.v)) ELSE Undefined
firstOf(x) == x.v[1]

ConversionError == "conversion threw"

(* singleThen that fails on an empty result set only.                      *)
singleThenLenient(response, ws) ==
  LET conv == convertResponseToDocuments(response, ws) IN
  IF conv.threw THEN [outcome |-> Rejected(ConversionError), events |-> conv.events]
  ELSE LET results == conv.result
           len == length(results)
           result == IF Truthy(len) THEN firstOf(results) ELSE Null
       IN  [outcome |->
              IF ~Truthy(len) THEN Rejected(NoResultsError) ELSE Resolved(result),
            events |-> conv.events]

(* firstThen that treats an empty result set as a failure.                 *)
firstThenStrict(response, ws) ==
  LET conv == convertResponseToDocuments(response, ws) IN
  IF conv.threw THEN [outcome |-> Rejected(ConversionError), events |-> conv.events]
  ELSE LET results == conv.result
           len == length(results)
       IN  [outcome |-> IF Truthy(len) THEN Resolved(firstOf(results))
                        ELSE Rejected(NoResultsError),
            events |-> conv.events]

(* countThen without the default of 0.                                     *)
countThenNoDefault(response, ws) ==
  [outcome |-> Resolved(response.TotalResults), events |-> <<>>]

(* ----------------------- the terminal handlers ------------------------- *)
(* Each is the .then handler of the terminal call, given the envelope      *)
(* executeQuery resolved to and the statistics flag at that moment.        *)
singleThen(response, ws) ==
  LET conv == convertResponseToDocuments(response, ws) IN
  IF conv.threw THEN [outcome |-> Rejected(ConversionError), events |-> conv.events]
  ELSE LET results == conv.result
           len == length(results)
           result == IF Truthy(len) THEN firstOf(results) ELSE Null
       IN  [outcome |->
              IF len # Num(1)
              THEN Rejected(IF len.t = "number" /\ len.v > 1
                            THEN MoreThanOneError ELSE NoResultsError)
              ELSE Resolved(result),
            events |-> conv.events]

firstThen(response, ws) ==
  LET conv == convertResponseToDocuments(response, ws) IN
  IF conv.threw THEN [outcome |-> Rejected(ConversionError), events |-> conv.events]
  ELSE LET results == conv.result
           len == length(results)
       IN  [outcome |-> Resolved(IF Truthy(len) THEN firstOf(results) ELSE Null),
            events |-> conv.events]

countThen(response, ws) ==
  [outcome |-> Resolved(IF Truthy(response.TotalResults)
                        THEN response.TotalResults ELSE Num(0)),
   events |-> <<>>]

allThen(response, ws) ==
  LET conv == convertResponseToDocuments(response, ws) IN
  IF conv.threw THEN [outcome |-> Rejected(ConversionError), events |-> conv.events]
  ELSE [outcome |-> Resolved(conv.result), events |-> conv.events]

(* PromiseResolver.resolve / PromiseResolver.reject with a callback: what  *)
(* the callback receives.                                                  *)
PromiseResolverResolve(result, hasCallback) ==
  IF hasCallback THEN <<Resolved(result)>> ELSE <<>>
PromiseResolverReject(error, hasCallback) ==
  IF hasCallback THEN <<Rejected(error)>> ELSE <<>>

(* The .then/.catch chain of a terminal call once executeQuery settled.    *)
Chain(kind, executed, ws, hasCallback) ==
  LET handled ==
        IF executed.status = "rejected"
        THEN [outcome |-> Rejected(executed.error), events |-> <<>>]
        ELSE IF kind = "single" THEN singleThen(executed.envelope, ws)
        ELSE IF kind = "first" THEN firstThen(executed.envelope, ws)
        ELSE IF kind = "count" THEN countThen(executed.envelope, ws)
        ELSE allThen(executed.envelope, ws)
  IN  [outcome |-> handled.outcome,
       events |-> handled.events,
       callbackLog |-> IF handled.outcome.status = "resolved"
                       THEN PromiseResolverResolve(handled.outcome.value, hasCallback)
                       ELSE PromiseResolverReject(handled.outcome.error, hasCallback)]

(* forced that leaves the fields as the call found them.                   *)
forcedNothing(kind, current) == current

(* The fields a terminal call forces before it executes.                   *)
forced(kind, current) ==
  IF kind = "single" THEN Fields(Num(2), Num(0), Bool(FALSE))
  ELSE IF kind = "first" THEN Fields(Num(1), Num(0), Bool(FALSE))
  ELSE IF kind = "count" THEN Fields(Num(0), Num(0), current.withStatistics)
  ELSE current

(* The locals a terminal call saves the fields in.                         *)
savedOf(kind, current) ==
  IF kind \in {"single", "first"} THEN current
  ELSE IF kind = "count" THEN Fields(current.take, current.skip, Undefined)
  ELSE Fields(Undefined, Undefined, Undefined)

(* restored that puts back take and leaves skip and the flag as forced.    *)
restoredTakeOnly(kind, saved, current) ==
  IF kind \in {"single", "first", "count"}
  THEN Fields(saved.take, current.skip, current.withStatistics)
  ELSE current

(* The fields after the .finally handler of a terminal call.               *)
restored(kind, saved, current) ==
  IF kind \in {"single", "first"} THEN saved
  ELSE IF kind = "count" THEN Fields(saved.take, saved.skip, current.withStatistics)
  ELSE current

Current == Fields(_take, _skip, withStatistics)

(* A terminal call up to the point where it suspends, or throws.           *)
StartCall(kind, hasCallback, fault) ==
  /\ FreeSlots # {}
  /\ LET s == FreeSlot
         f == forced(kind, Current)
         ex == executeQuery(_builder, queryParameters, f.take, f.skip, fault)
     IN  /\ _take' = f.take
         /\ _skip' = f.skip
         /\ withStatistics' = f.withStatistics
         /\ calls' = [calls EXCEPT ![s] =
               [kind |-> kind,
                pc |-> IF ex.thrown = "none" THEN "suspended" ELSE "done",
                hasCallback |-> hasCallback,
                before |-> Current,
                saved |-> savedOf(kind, Current),
                bindings |-> Bindings,
                events |-> ex.events,
                commands |-> ex.commands,
                trace |-> ex.trace,
                response |-> NoResponse,
                executed |-> IdleCall.executed,
                outcome |-> IF ex.thrown = "none" THEN Pending ELSE Rejected(ex.thrown),
                callbackLog |-> <<>>]]
  /\ UNCHANGED <<queryParameters, _builder, lastCall,
                 indexQueryOptions, returned,
                 lastWait, nameVars, commandVars>>

Faults == {"none", "observer", "submit"}

single(hasCallback, fault) == StartCall("single", hasCallback, fault)
first(hasCallback, fault) == StartCall("first", hasCallback, fault)
count(hasCallback, fault) == StartCall("count", hasCallback, fault)
all(hasCallback, fault) == StartCall("all", hasCallback, fault)

(* The execution layer settles the command of the call in slot s, and the  *)
(* .then/.catch handlers of the call run.                                  *)
Respond(s, response) ==
  /\ calls[s].pc = "suspended"
  /\ LET c == calls[s]
         executed == executeQueryThen(response)
         ch == Chain(c.kind, executed, withStatistics, c.hasCallback)
     IN  calls' = [calls EXCEPT ![s] =
           [c EXCEPT !.pc = IF c.kind = "all" THEN "done" ELSE "finally",
                     !.response = response,
                     !.executed = executed,
                     !.events = c.events \o ch.events,
                     !.trace = c.trace \o Names(ch.events),
                     !.outcome = ch.outcome,
                     !.callbackLog = ch.callbackLog]]
  /\ UNCHANGED <<_take, _skip, withStatistics, queryParameters, _builder, lastCall,
                 indexQueryOptions, returned,
                 lastWait, nameVars, commandVars>>

(* The .finally handler of single, first and count; the returned deferred  *)
(* value settles after it.                                                 *)
Finally(s) ==
  /\ calls[s].pc = "finally"
  /\ LET r == restored(calls[s].kind, calls[s].saved, Current)
     IN  /\ _take' = r.take
         /\ _skip' = r.skip
         /\ withStatistics' = r.withStatistics
  /\ calls' = [calls EXCEPT ![s].pc = "done"]
  /\ UNCHANGED <<queryParameters, _builder, lastCall,
                 indexQueryOptions, returned,
                 lastWait, nameVars, commandVars>>

(* The caller takes the settled value; the slot is free again.             *)
Await(s) ==
  /\ calls[s].pc = "done"
  /\ calls' = [calls EXCEPT ![s] = IdleCall]
  /\ UNCHANGED <<_take, _skip, withStatistics, queryParameters, _builder, lastCall,
                 indexQueryOptions, returned,
                 lastWait, nameVars, commandVars>>

(* --------------------------- the typed query --------------------------- *)
ParamName(n) == <<"p", n>>

(* Map.set(name, value): an existing key keeps its place.                  *)
MapSet(params, name, value) ==
  IF name \in Keys(params)
  THEN [i \in 1..Len(params) |->
          IF params[i].name = name THEN [name |-> name, value |-> value]
          ELSE params[i]]
  ELSE Append(params, [name |-> name, value |-> value])

(* addQueryParameter that numbers the names from 1.                        *)
addQueryParameterFromOne(params, valueOrValues) ==
  LET parameterName == ParamName(Len(params) + 1)
  IN  [name |-> parameterName, params |-> MapSet(params, parameterName, valueOrValues)]

addQueryParameter(params, valueOrValues) ==
  LET parameterName == ParamName(Len(params))
  IN  [name |-> parameterName, params |-> MapSet(params, parameterName, valueOrValues)]

(* DateUtil.stringify: a date is held by its canonical string form.        *)
DateUtilStringify(date) == Str(date.v)

typeof(value) ==
  IF value.t \in {"boolean", "number", "string", "undefined"} THEN value.t
  ELSE "object"

InvalidArgumentError ==
  "InvalidArgumentException: Invalid value passed to query condition. Only integer / number / string and null values are supported"

(* transformValue that lets a value of any type through.                   *)
transformValuePermissive(value) ==
  IF isNull(value) THEN [threw |-> FALSE, value |-> Null]
  ELSE IF value = Str("") THEN [threw |-> FALSE, value |-> Str("")]
  ELSE IF value.t = "date" THEN [threw |-> FALSE, value |-> DateUtilStringify(value)]
  ELSE [threw |-> FALSE, value |-> value]

(* transformValue that takes every falsy value for null.                   *)
transformValueFalsy(value) ==
  IF ~Truthy(value) THEN [threw |-> FALSE, value |-> Null]
  ELSE IF value.t = "date" THEN [threw |-> FALSE, value |-> DateUtilStringify(value)]
  ELSE IF typeof(value) \notin {"boolean", "number", "string"}
       THEN [threw |-> TRUE, value |-> Undefined]
  ELSE [threw |-> FALSE, value |-> value]

transformValue(value) ==
  IF isNull(value) THEN [threw |-> FALSE, value |-> Null]
  ELSE IF value = Str("") THEN [threw |-> FALSE, value |-> Str("")]
  ELSE IF value.t = "date" THEN [threw |-> FALSE, value |-> DateUtilStringify(value)]
  ELSE IF typeof(value) \notin {"boolean", "number", "string"}
       THEN [threw |-> TRUE, value |-> Undefined]
  ELSE [threw |-> FALSE, value |-> value]

RECURSIVE unpackValuesArray(_)
unpackValuesArray(values) ==
  IF values = <<>> THEN <<>>
  ELSE LET value == Head(values)
       IN  (IF value.t = "array" THEN unpackValuesArray(value.v) ELSE <<value>>)
             \o unpackValuesArray(Tail(values))

transformValuesArray(values) ==
  LET unpacked == unpackValuesArray(values)
      each == [i \in 1..Len(unpacked) |-> transformValue(unpacked[i])]
  IN  [threw |-> \E i \in 1..Len(unpacked) : each[i].threw,
       values |-> [i \in 1..Len(unpacked) |-> each[i].value]]

(* The default a range method binds for a null endpoint.                   *)
transformBound(value, default) ==
  IF ~isNull(value) THEN transformValue(value)
  ELSE [threw |-> FALSE, value |-> default]

RECURSIVE RegisterAll(_, _)
RegisterAll(params, values) ==
  IF values = <<>> THEN [params |-> params, names |-> <<>>]
  ELSE LET one == addQueryParameter(params, Head(values))
           rest == RegisterAll(one.params, Tail(values))
       IN  [params |-> rest.params, names |-> <<one.name>> \o rest.names]

NoCall ==
  [method |-> "none", form |-> "none", fieldName |-> "", args |-> <<>>,
   exact |-> Undefined, threw |-> FALSE, handed |-> <<>>, emitted |-> FALSE,
   before |-> [queryParameters |-> <<>>, _builder |-> <<>>]]

(* A fluent call: unless it threw, it registers the values `bound` in      *)
(* order and, if `emit`, hands the builder one call `builderMethod` with   *)
(* the names of the parameters registered.                                 *)
Fluent(method, form, fieldName, args, exact, threw, bound, emit, builderMethod) ==
  /\ Len(_builder) < MaxTokens
  /\ LET r == RegisterAll(queryParameters, bound)
         done == ~threw /\ emit
     IN  /\ queryParameters' = IF done THEN r.params ELSE queryParameters
         /\ _builder' = IF done
                        THEN Append(_builder, Token(builderMethod, fieldName, r.names, exact))
                        ELSE _builder
         /\ lastCall' = [method |-> method, form |-> form, fieldName |-> fieldName,
                         args |-> args, exact |-> exact, threw |-> threw,
                         handed |-> IF done THEN r.names ELSE <<>>,
                         emitted |-> done,
                         before |-> Bindings]
  /\ UNCHANGED <<_take, _skip, withStatistics, calls, indexQueryOptions, returned,
                 lastWait, nameVars, commandVars>>

(* WhereParams.from: the structured form of a condition.                   *)
WhereParamsFrom(fieldName, value, exact) ==
  [fieldName |-> fieldName, value |-> value, exact |-> exact]

(* toWhereParams that loses the exact flag of the positional form.         *)
toWhereParamsDroppingExact(form, fieldName, value, exact) ==
  IF form = "positional"
  THEN WhereParamsFrom(fieldName, value, Bool(FALSE))
  ELSE WhereParamsFrom(fieldName, value, exact)

(* What whereEquals / whereNotEquals make of their arguments: form is      *)
(* "positional" (fieldName, value, exact = false) or "params" (a           *)
(* structured parameter object).                                           *)
toWhereParams(form, fieldName, value, exact) ==
  IF form = "positional"
  THEN WhereParamsFrom(fieldName, value, IF exact = Undefined THEN Bool(FALSE) ELSE exact)
  ELSE WhereParamsFrom(fieldName, value, exact)

whereEquals(form, fieldName, value, exact) ==
  LET whereParams == toWhereParams(form, fieldName, value, exact)
      transformedValue == transformValue(whereParams.value)
  IN  Fluent("whereEquals", form, whereParams.fieldName, <<value>>, whereParams.exact,
             transformedValue.threw, <<transformedValue.value>>, TRUE, "whereEquals")

whereNotEquals(form, fieldName, value, exact) ==
  LET whereParams == toWhereParams(form, fieldName, value, exact)
      transformedValue == transformValue(whereParams.value)
  IN  Fluent("whereNotEquals", form, whereParams.fieldName, <<value>>, whereParams.exact,
             transformedValue.threw, <<transformedValue.value>>, TRUE, "whereNotEquals")

openSubclause ==
  Fluent("openSubclause", "positional", "", <<>>, Undefined, FALSE, <<>>, TRUE, "openSubclause")

closeSubclause ==
  Fluent("closeSubclause", "positional", "", <<>>, Undefined, FALSE, <<>>, TRUE, "closeSubclause")

whereIn(fieldName, values, exact) ==
  LET transformedValues == transformValuesArray(values)
  IN  Fluent("whereIn", "positional", fieldName, <<Arr(values)>>, exact,
             transformedValues.threw, <<Arr(values)>>, TRUE, "whereIn")

whereStartsWith(fieldName, value) ==
  LET transformedValue == transformValue(value)
  IN  Fluent("whereStartsWith", "positional", fieldName, <<value>>, Undefined,
             transformedValue.threw, <<transformedValue.value>>, TRUE, "whereStartsWith")

whereEndsWith(fieldName, value) ==
  LET transformedValue == transformValue(value)
  IN  Fluent("whereEndsWith", "positional", fieldName, <<value>>, Undefined,
             transformedValue.threw, <<transformedValue.value>>, TRUE, "whereEndsWith")

whereBetween(fieldName, start, end, exact) ==
  LET transformedFrom == transformBound(start, Str("*"))
      transformedTo == transformBound(end, Str("NULL"))
  IN  Fluent("whereBetween", "positional", fieldName, <<start, end>>, exact,
             transformedFrom.threw \/ transformedTo.threw,
             <<transformedFrom.value, transformedTo.value>>, TRUE, "whereBetween")

whereGreaterThan(fieldName, value, exact) ==
  LET transformedValue == transformBound(value, Str("*"))
  IN  Fluent("whereGreaterThan", "positional", fieldName, <<value>>, exact,
             transformedValue.threw, <<transformedValue.value>>, TRUE, "whereGreaterThan")

whereGreaterThanOrEqual(fieldName, value, exact) ==
  LET transformedValue == transformBound(value, Str("*"))
  IN  Fluent("whereGreaterThanOrEqual", "positional", fieldName, <<value>>, exact,
             transformedValue.threw, <<transformedValue.value>>, TRUE,
             "whereGreaterThanOrEqual")

whereLessThan(fieldName, value, exact) ==
  LET transformedValue == transformBound(value, Str("NULL"))
  IN  Fluent("whereLessThan", "positional", fieldName, <<value>>, exact,
             transformedValue.threw, <<transformedValue.value>>, TRUE, "whereLessThan")

whereLessThanOrEqual(fieldName, value, exact) ==
  LET transformedValue == transformBound(value, Str("NULL"))
  IN  Fluent("whereLessThanOrEqual", "positional", fieldName, <<value>>, exact,
             transformedValue.threw, <<transformedValue.value>>, TRUE,
             "whereLessThanOrEqual")

search(fieldName, searchTerms) ==
  Fluent("search", "positional", fieldName, <<searchTerms>>, Undefined, FALSE,
         <<searchTerms>>, TRUE, "search")

containsAny(fieldName, values) ==
  LET transformedValues == transformValuesArray(values)
  IN  Fluent("containsAny", "positional", fieldName, <<Arr(values)>>, Undefined,
             transformedValues.threw, <<Arr(transformedValues.values)>>,
             Len(transformedValues.values) > 0, "whereIn")

containsAll(fieldName, values) ==
  LET transformedValues == transformValuesArray(values)
  IN  Fluent("containsAll", "positional", fieldName, <<Arr(values)>>, Undefined,
             transformedValues.threw, <<Arr(transformedValues.values)>>,
             Len(transformedValues.values) > 0, "whereAllIn")

withinRadiusOf(fieldName, radius, latitude, longitude) ==
  Fluent("withinRadiusOf", "positional", fieldName, <<radius, latitude, longitude>>,
         Undefined, FALSE, <<radius, latitude, longitude>>, TRUE, "withinRadiusOf")

(* spatial with a literal shape ("positional"), or with a criteria object  *)
(* ("criteria"): the builder asks the generator for one name per value the *)
(* criteria needs.                                                         *)
spatial(form, fieldName, shapeOrCriteriaValues) ==
  Fluent("spatial", form, fieldName, shapeOrCriteriaValues, Undefined, FALSE,
         shapeOrCriteriaValues, TRUE, "spatial")

(* orderByDistance[Descending] with a shape, or latitude and longitude.    *)
orderByDistance(fieldName, shapeOrCoordinates) ==
  Fluent("orderByDistance", "positional", fieldName, shapeOrCoordinates, Undefined,
         FALSE, shapeOrCoordinates, TRUE, "orderByDistance")

orderByDistanceDescending(fieldName, shapeOrCoordinates) ==
  Fluent("orderByDistanceDescending", "positional", fieldName, shapeOrCoordinates,
         Undefined, FALSE, shapeOrCoordinates, TRUE, "orderByDistanceDescending")

(* ------------------------------- inputs -------------------------------- *)
FieldNames == {"Name", "Price"}
Values ==
  {Null, Str(""), Str("test"), Num(10), Bool(TRUE),
   DateOf("2018-01-01T00:00:00.0000000"), Obj}
Endpoints == {Null, Num(18), Num(30), DateOf("2018-01-01T00:00:00.0000000"), Obj}
ValueLists ==
  {<<>>, <<Arr(<<>>)>>, <<Num(1)>>, <<Arr(<<Num(1), Num(2)>>), Num(3)>>,
   <<Str("test"), DateOf("2018-01-01T00:00:00.0000000")>>, <<Num(1), Obj>>,
   <<Arr(<<Str("test"), Arr(<<Obj>>)>>), Num(3)>>}
ExactVals == {Undefined, Bool(TRUE)}
Shape == Str("POINT (1 2)")
Coordinates == <<Num(1), Num(2)>>
CriteriaValues == {<<Shape>>, <<Num(5), Num(1), Num(2)>>}

(* ------------------------- freshness options -------------------------- *)
OptionKeys ==
  {"cutOffEtag", "waitForNonStaleResults", "waitForNonStaleResultsAsOfNow",
   "waitForNonStaleResultsTimeout"}

(* The empty options set a query is created with.                          *)
NoOptions == [k \in OptionKeys |-> Undefined]

(* _.assign(object, source): the keys of source overwrite, the others stay. *)
assign(object, source) ==
  [k \in OptionKeys |-> IF k \in DOMAIN source THEN source[k] ELSE object[k]]

DefaultTimeout == [t |-> "timeout", v |-> "IndexQuery.DefaultTimeout"]

(* The options each waitForNonStaleResults* method assigns.                *)
nonStaleOptions ==
  [cutOffEtag |-> Null,
   waitForNonStaleResults |-> Bool(TRUE),
   waitForNonStaleResultsTimeout |-> DefaultTimeout]

asOfOptions(cutOffEtag, waitTimeout) ==
  [cutOffEtag |-> cutOffEtag,
   waitForNonStaleResults |-> Bool(TRUE),
   waitForNonStaleResultsTimeout |->
     IF Truthy(waitTimeout) THEN waitTimeout ELSE DefaultTimeout]

asOfNowOptions(waitTimeout) ==
  [cutOffEtag |-> Null,
   waitForNonStaleResults |-> Bool(TRUE),
   waitForNonStaleResultsAsOfNow |-> Bool(TRUE),
   waitForNonStaleResultsTimeout |->
     IF Truthy(waitTimeout) THEN waitTimeout ELSE DefaultTimeout]

NoWait == [method |-> "none", args |-> <<>>]

waitForNonStaleResults ==
  /\ indexQueryOptions' = assign(indexQueryOptions, nonStaleOptions)
  /\ lastWait' = [method |-> "waitForNonStaleResults", args |-> <<>>]
  /\ UNCHANGED <<_take, _skip, withStatistics, queryParameters, _builder, calls,
                 lastCall, returned, nameVars, commandVars>>

waitForNonStaleResultsAsOf(cutOffEtag, waitTimeout) ==
  /\ indexQueryOptions' = assign(indexQueryOptions, asOfOptions(cutOffEtag, waitTimeout))
  /\ lastWait' = [method |-> "waitForNonStaleResultsAsOf",
                  args |-> <<cutOffEtag, waitTimeout>>]
  /\ UNCHANGED <<_take, _skip, withStatistics, queryParameters, _builder, calls,
                 lastCall, returned, nameVars, commandVars>>

waitForNonStaleResultsAsOfNow(waitTimeout) ==
  /\ indexQueryOptions' = assign(indexQueryOptions, asOfNowOptions(waitTimeout))
  /\ lastWait' = [method |-> "waitForNonStaleResultsAsOfNow", args |-> <<waitTimeout>>]
  /\ UNCHANGED <<_take, _skip, withStatistics, queryParameters, _builder, calls,
                 lastCall, returned, nameVars, commandVars>>

(* ------------------------------- paging -------------------------------- *)
TakeVals == {Null, Num(5)}
SkipVals == {Null, Num(5)}

take(docsCount) ==
  /\ _take' = docsCount
  /\ UNCHANGED <<_skip, withStatistics, queryParameters, _builder, calls, lastCall,
                 indexQueryOptions, returned,
                 lastWait, nameVars, commandVars>>

skip(skipCount) ==
  /\ _skip' = skipCount
  /\ UNCHANGED <<_take, withStatistics, queryParameters, _builder, calls, lastCall,
                 indexQueryOptions, returned,
                 lastWait, nameVars, commandVars>>

(* --------------------------- descriptor calls -------------------------- *)
(* Everything of the query object a descriptor is built from.              *)
QueryState ==
  [take |-> _take, skip |-> _skip, withStatistics |-> withStatistics,
   queryParameters |-> queryParameters, _builder |-> _builder,
   indexQueryOptions |-> indexQueryOptions]

NothingReturned == <<>>

(* A call of getIndexQuery(): it assigns to no field; `returned` notes the *)
(* state it found, the descriptor it returned, and whether the call before *)
(* it found the same state. Nothing is returned when rendering throws.     *)
getIndexQueryCall ==
  /\ LET query == getIndexQuery(_builder, queryParameters, _take, _skip)
     IN  returned' =
           IF query.threw THEN returned
           ELSE <<[found |-> QueryState,
                   again |-> returned # <<>> /\ returned[1].found = QueryState,
                   descriptor |-> [query |-> query.query,
                                   queryParameters |-> query.queryParameters,
                                   take |-> query.take,
                                   skip |-> query.skip,
                                   options |-> indexQueryOptions]]>>
  /\ UNCHANGED <<_take, _skip, withStatistics, queryParameters, _builder, calls,
                 lastCall, indexQueryOptions,
                 lastWait, nameVars, commandVars>>

(* ----------------------------- RavenCommand ---------------------------- *)
(* An object is a function from its keys to their values; params and       *)
(* payload are an object, null or undefined.                               *)
ObjectKeys == {"id", "start"}
ObjectVals == {"x", "y"}
Objects == UNION {[K -> ObjectVals] : K \in SUBSET ObjectKeys}
EmptyObject == [k \in {} |-> "x"]

NoObject == [kind |-> "undefined", fields |-> EmptyObject]
NullObject == [kind |-> "null", fields |-> EmptyObject]
Plain(fields) == [kind |-> "object", fields |-> fields]
MaybeObjects == {NoObject, NullObject} \cup {Plain(o) : o \in Objects}

(* TypeUtil.isNull(target) *)
isNullObject(target) == target.kind \in {"undefined", "null"}

(* _.isEmpty(target) *)
isEmpty(target) == DOMAIN target.fields = {}

(* Object.assign(target, source) *)
ObjectAssign(target, source) ==
  [k \in DOMAIN target \cup DOMAIN source |->
     IF k \in DOMAIN source THEN source[k] ELSE target[k]]

ServerNodes == {"A", "B"}

(* A response: its body and whether the error mapping rejects it.          *)
CommandResponse(body, rejected) == [given |-> TRUE, body |-> body, rejected |-> rejected]
NoLastResponse == [given |-> FALSE, body |-> Undefined, rejected |-> FALSE]
Bodies == {Undefined, Null, Str(""), Obj, Arr(<<Obj>>)}
CommandResponses == {CommandResponse(b, r) : b \in Bodies, r \in BOOLEAN}

(* ExceptionsFactory.throwFrom(response): TRUE when it throws.             *)
throwFrom(response) == response.rejected

(* constructor(endPoint, method, params, payload, headers) *)
NewCommand(params, payload) ==
  [endPoint |-> "/docs",
   _method |-> "GET",
   params |-> IF isNullObject(params) THEN Plain(EmptyObject) ELSE params,
   payload |-> payload,
   headers |-> Plain(EmptyObject),
   failedNodes |-> {},
   _lastResponse |-> NoLastResponse]

(* get wasFailed() *)
wasFailed(cmd) == Cardinality(cmd.failedNodes) > 0

(* wasFailedWithNode(node) *)
wasFailedWithNode(cmd, node) == wasFailed(cmd) /\ node \in cmd.failedNodes

(* The check() of toRequestOptions(). *)
check(target) == ~isNullObject(target) /\ ~isEmpty(target)

OptionsAlways ==
  {"json", "uri", "method", "headers", "resolveWithFullResponse", "qsStringifyOptions"}

toRequestOptionsAlwaysBody(cmd) ==
  [keys |-> OptionsAlways
              \cup (IF check(cmd.params) THEN {"qs"} ELSE {})
              \cup (IF ~isNullObject(cmd.payload) THEN {"body"} ELSE {}),
   uri |-> cmd.endPoint,
   method |-> cmd._method,
   headers |-> cmd.headers,
   qs |-> IF check(cmd.params) THEN cmd.params ELSE NoObject,
   body |-> IF ~isNullObject(cmd.payload) THEN cmd.payload ELSE NoObject]

(* toRequestOptions(): keys are the keys of the options object.            *)
toRequestOptions(cmd) ==
  [keys |-> OptionsAlways
              \cup (IF check(cmd.params) THEN {"qs"} ELSE {})
              \cup (IF check(cmd.payload) THEN {"body"} ELSE {}),
   uri |-> cmd.endPoint,
   method |-> cmd._method,
   headers |-> cmd.headers,
   qs |-> IF check(cmd.params) THEN cmd.params ELSE NoObject,
   body |-> IF check(cmd.payload) THEN cmd.payload ELSE NoObject]

NoRequestOptions ==
  [keys |-> {}, uri |-> "", method |-> "", headers |-> NoObject,
   qs |-> NoObject, body |-> NoObject]

(* The last operation made on the command: what it was given, what it      *)
(* returned, the command before it, and the nodes addFailedNode was        *)
(* called with so far.                                                     *)
NoCommandCall ==
  [method |-> "none", node |-> "", response |-> NoLastResponse,
   result |-> Undefined, options |-> NoRequestOptions, threw |-> FALSE,
   before |-> NewCommand(NoObject, NoObject), added |-> {}]

CommandCall(method, node, response, result, options, threw, added) ==
  [method |-> method, node |-> node, response |-> response, result |-> result,
   options |-> options, threw |-> threw, before |-> command, added |-> added]

queryVars ==
  <<_take, _skip, withStatistics, queryParameters, _builder, calls, lastCall,
    indexQueryOptions, returned, lastWait, nameVars>>

failedNodesReplaced(cmd, node) == {node}

(* this.failedNodes.add(node) *)
failedNodesAdd(cmd, node) == cmd.failedNodes \cup {node}

addFailedNode(node) ==
  /\ command' = [command EXCEPT !.failedNodes = failedNodesAdd(command, node)]
  /\ commandCall' = CommandCall("addFailedNode", node, NoLastResponse, Undefined,
                                NoRequestOptions, FALSE,
                                commandCall.added \cup {node})
  /\ UNCHANGED queryVars

wasFailedCall ==
  /\ commandCall' = CommandCall("wasFailed", "", NoLastResponse,
                                Bool(wasFailed(command)), NoRequestOptions, FALSE,
                                commandCall.added)
  /\ UNCHANGED <<command, queryVars>>

wasFailedWithNodeCall(node) ==
  /\ commandCall' = CommandCall("wasFailedWithNode", node, NoLastResponse,
                                Bool(wasFailedWithNode(command, node)),
                                NoRequestOptions, FALSE, commandCall.added)
  /\ UNCHANGED <<command, queryVars>>

toRequestOptionsCall ==
  /\ commandCall' = CommandCall("toRequestOptions", "", NoLastResponse, Undefined,
                                toRequestOptions(command), FALSE, commandCall.added)
  /\ UNCHANGED <<command, queryVars>>

lastResponseUnlessRejected(cmd, response) ==
  IF throwFrom(response) THEN cmd._lastResponse ELSE response

(* The value of this._lastResponse after setResponse(response): the        *)
(* assignment is the argument of throwFrom and so happens before it.       *)
lastResponseAfter(cmd, response) == response

(* What setResponse(response) returns when the validation passes.          *)
setResponseReturns(response) ==
  IF Truthy(response.body) THEN response.body ELSE Undefined

setResponse(response) ==
  /\ command' = [command EXCEPT !._lastResponse = lastResponseAfter(command, response)]
  /\ commandCall' =
       IF throwFrom(response)
       THEN CommandCall("setResponse", "", response, Undefined, NoRequestOptions,
                        TRUE, commandCall.added)
       ELSE CommandCall("setResponse", "", response, setResponseReturns(response),
                        NoRequestOptions, FALSE, commandCall.added)
  /\ UNCHANGED queryVars

(* addParams(params): params is null, undefined or an object; the string   *)
(* form addParams(key, value) is the object {[key]: value}.                *)
addParams(params) ==
  /\ command' =
       IF ~isNullObject(params)
       THEN [command EXCEPT !.params =
               Plain(ObjectAssign(command.params.fields, params.fields))]
       ELSE command
  /\ commandCall' = CommandCall("addParams", "", NoLastResponse, Undefined,
                                NoRequestOptions, FALSE, commandCall.added)
  /\ UNCHANGED queryVars

(* removeParams(params): delete this.params[param] for each name.          *)
removeParams(paramsToRemove) ==
  /\ command' =
       [command EXCEPT !.params =
          Plain([k \in DOMAIN command.params.fields \ paramsToRemove |->
                   command.params.fields[k]])]
  /\ commandCall' = CommandCall("removeParams", "", NoLastResponse, Undefined,
                                NoRequestOptions, FALSE, commandCall.added)
  /\ UNCHANGED queryVars

(* ------------------------------ creation ------------------------------- *)
ALL_DOCS == Str("@all_docs")

(* The options create() is given; given is FALSE when it is given none.    *)
CreateOptions(given, ws, indexName, collection) ==
  [given |-> given, withStatistics |-> ws, indexName |-> indexName,
   collection |-> collection]

NoCreateOptions == CreateOptions(FALSE, Undefined, Undefined, Undefined)

(* a || b *)
Or(a, b) == IF Truthy(a) THEN a ELSE b

(* What create() passes to the constructor.                                *)
create(options) ==
  IF options.given
  THEN [withStatistics |-> Or(options.withStatistics, Null),
        collection |-> Or(options.collection, ALL_DOCS),
        indexName |-> Or(options.indexName, Null)]
  ELSE [withStatistics |-> Null, collection |-> Null, indexName |-> Null]

(* The constructor that keeps the collection name next to an index name.   *)
constructorKeepingCollection(collection, indexName) ==
  IF Truthy(indexName)
  THEN [_collectionName |-> Or(collection, ALL_DOCS), _indexName |-> indexName]
  ELSE [_collectionName |-> Or(collection, ALL_DOCS), _indexName |-> Null]

(* The index and collection name the constructor stores.                   *)
constructor(collection, indexName) ==
  IF Truthy(indexName)
  THEN [_collectionName |-> Null, _indexName |-> indexName]
  ELSE [_collectionName |-> Or(collection, ALL_DOCS), _indexName |-> Null]

(* A query object as create(options) leaves it, and a new command.         *)
Created(options) ==
  /\ _take = Null
  /\ _skip = Null
  /\ withStatistics = create(options).withStatistics
  /\ queryParameters = <<>>
  /\ _builder = <<>>
  /\ calls = [s \in Slots |-> IdleCall]
  /\ lastCall = NoCall
  /\ indexQueryOptions = NoOptions
  /\ returned = NothingReturned
  /\ lastWait = NoWait
  /\ created = options
  /\ _indexName = constructor(create(options).collection, create(options).indexName)._indexName
  /\ _collectionName =
       constructor(create(options).collection, create(options).indexName)._collectionName

Init ==
  /\ \E ws \in {Bool(TRUE), Undefined} :
       Created(CreateOptions(TRUE, ws, Undefined, Undefined))
  /\ command = NewCommand(NoObject, NoObject)
  /\ commandCall = NoCommandCall

(* --------- one call chain at a time: terminal calls and paging --------- *)
Next ==
  \/ \E n \in TakeVals : NoCallInFlight /\ take(n)
  \/ \E n \in SkipVals : NoCallInFlight /\ skip(n)
  \/ NoCallInFlight /\ whereEquals("positional", "Name", Str("test"), Bool(FALSE))
  \/ NoCallInFlight /\ openSubclause
  \/ \E cb \in BOOLEAN, fault \in Faults : NoCallInFlight /\ single(cb, fault)
  \/ \E cb \in BOOLEAN, fault \in Faults : NoCallInFlight /\ first(cb, fault)
  \/ \E cb \in BOOLEAN, fault \in Faults : NoCallInFlight /\ count(cb, fault)
  \/ \E cb \in BOOLEAN, fault \in Faults : NoCallInFlight /\ all(cb, fault)
  \/ \E s \in Slots, response \in Responses : Respond(s, response)
  \/ \E s \in Slots : Finally(s)
  \/ \E s \in Slots : Await(s)

Spec == Init /\ [][Next]_vars

(* ------------------- the fluent surface of a typed query --------------- *)
(* The chains of fluent calls explored: calls drawn from these, which      *)
(* register one parameter, two, none, or throw, followed by any one call.  *)
ChainedCalls ==
  {[method |-> "whereEquals", args |-> <<Str("test")>>],
   [method |-> "whereEquals", args |-> <<Obj>>],
   [method |-> "whereBetween", args |-> <<Num(18), Null>>],
   [method |-> "containsAny", args |-> <<Arr(<<>>)>>],
   [method |-> "openSubclause", args |-> <<>>]}

Chainable ==
  \/ lastCall = NoCall
  \/ /\ [method |-> lastCall.method, args |-> lastCall.args] \in ChainedCalls
     /\ lastCall.form = "positional"
     /\ lastCall.exact \in {Undefined, Bool(FALSE)}

FluentCall ==
  \/ \E form \in {"positional", "params"}, f \in FieldNames, v \in Values,
        e \in {Bool(FALSE), Bool(TRUE)} : whereEquals(form, f, v, e)
  \/ \E form \in {"positional", "params"}, f \in FieldNames, v \in Values,
        e \in {Bool(FALSE), Bool(TRUE)} : whereNotEquals(form, f, v, e)
  \/ openSubclause
  \/ closeSubclause
  \/ \E f \in FieldNames, vs \in ValueLists, e \in ExactVals : whereIn(f, vs, e)
  \/ \E f \in FieldNames, v \in Values : whereStartsWith(f, v)
  \/ \E f \in FieldNames, v \in Values : whereEndsWith(f, v)
  \/ \E f \in FieldNames, a \in Endpoints, b \in Endpoints, e \in ExactVals :
        whereBetween(f, a, b, e)
  \/ \E f \in FieldNames, v \in Values, e \in ExactVals : whereGreaterThan(f, v, e)
  \/ \E f \in FieldNames, v \in Values, e \in ExactVals : whereGreaterThanOrEqual(f, v, e)
  \/ \E f \in FieldNames, v \in Values, e \in ExactVals : whereLessThan(f, v, e)
  \/ \E f \in FieldNames, v \in Values, e \in ExactVals : whereLessThanOrEqual(f, v, e)
  \/ \E f \in FieldNames : search(f, Str("test"))
  \/ \E f \in FieldNames, vs \in ValueLists : containsAny(f, vs)
  \/ \E f \in FieldNames, vs \in ValueLists : containsAll(f, vs)
  \/ \E f \in FieldNames : withinRadiusOf(f, Num(5), Num(1), Num(2))
  \/ \E f \in FieldNames : spatial("positional", f, <<Shape>>)
  \/ \E f \in FieldNames, vs \in CriteriaValues : spatial("criteria", f, vs)
  \/ \E f \in FieldNames, vs \in {<<Shape>>, Coordinates} : orderByDistance(f, vs)
  \/ \E f \in FieldNames, vs \in {<<Shape>>, Coordinates} :
        orderByDistanceDescending(f, vs)

NextFluent == Chainable /\ FluentCall

SpecFluent == Init /\ [][NextFluent]_vars

(* ------------------ paging, options and descriptors -------------------- *)
DescriptorTakeVals == {Null, Num(0), Num(5)}
WaitTimeouts == {Undefined, Num(30)}

NextDescriptor ==
  \/ \E n \in DescriptorTakeVals : take(n)
  \/ \E n \in SkipVals : skip(n)
  \/ whereEquals("positional", "Name", Str("test"), Bool(FALSE))
  \/ openSubclause
  \/ waitForNonStaleResults
  \/ \E waitTimeout \in WaitTimeouts : waitForNonStaleResultsAsOf(Num(7), waitTimeout)
  \/ \E waitTimeout \in WaitTimeouts : waitForNonStaleResultsAsOfNow(waitTimeout)
  \/ getIndexQueryCall

SpecDescriptor == Init /\ [][NextDescriptor]_vars

(* ======================================================================= *)
(*                       properties of terminal calls                      *)
(* ======================================================================= *)
Settled(s) == calls[s].pc = "done"
(* The execution layer settled the command and the handlers have run.      *)
Handled(s) == calls[s].pc \in {"finally", "done"} /\ calls[s].response.kind # "none"
(* The call threw before executeQuery returned a deferred value.           *)
ThrewEarly(s) == Settled(s) /\ calls[s].response.kind = "none"

FieldsRestored(s) ==
  /\ _take = calls[s].before.take
  /\ _skip = calls[s].before.skip
  /\ calls[s].kind \in {"single", "first"} =>
       withStatistics = calls[s].before.withStatistics

AllConvertible(envelope) ==
  \A i \in 1..Len(envelope.Results) : envelope.Results[i] # "x"

(* The call reached the end of the conversion of its envelope.             *)
Converted(s) ==
  /\ Handled(s)
  /\ calls[s].executed.status = "resolved"
  /\ AllConvertible(calls[s].executed.envelope)

SubmittedWith(s, tk, sk) ==
  /\ Len(calls[s].commands) = 1
  /\ calls[s].commands[1].take = tk
  /\ calls[s].commands[1].skip = sk

(* C1: for single, first and count and every outcome of the execution      *)
(* layer (a response, a null response, a stale response, a rejection, and  *)
(* the cardinality failures of single), once the returned deferred value   *)
(* has settled, take and skip, and for single and first the statistics     *)
(* flag, equal the values they had immediately before the call.            *)
C1_RestoredOnceSettled ==
  \A s \in Slots :
    (Settled(s) /\ Handled(s) /\ calls[s].kind \in {"single", "first", "count"})
      => FieldsRestored(s)

C1_Witness ==
  \E s \in Slots :
    /\ Settled(s) /\ Handled(s)
    /\ calls[s].kind = "single"
    /\ calls[s].outcome = Rejected(MoreThanOneError)
    /\ calls[s].before = Fields(Num(5), Num(5), Bool(TRUE))
    /\ Current = calls[s].before

(* C2: single submits its query with take = 2 and skip = 0 whatever the    *)
(* paging was, resolves to the one entity exactly when the converted       *)
(* result set has one element, fails with the 'no results' invalid         *)
(* operation error when it has none and with the 'more than one result'    *)
(* error when it has two or more.                                          *)
C2_SingleExactlyOne ==
  \A s \in Slots :
    calls[s].kind = "single" =>
      /\ calls[s].pc = "suspended" \/ Handled(s) => SubmittedWith(s, 2, 0)
      /\ Converted(s) =>
           LET results == calls[s].executed.envelope.Results IN
           /\ Len(results) = 1 => calls[s].outcome = Resolved(Entity(results[1]))
           /\ Len(results) = 0 => calls[s].outcome = Rejected(NoResultsError)
           /\ Len(results) >= 2 => calls[s].outcome = Rejected(MoreThanOneError)
      /\ Handled(s) =>
           (calls[s].outcome.status = "resolved"
              <=> Converted(s) /\ Len(calls[s].executed.envelope.Results) = 1)

C2_Witness ==
  \E s \in Slots :
    /\ calls[s].kind = "single" /\ Settled(s) /\ Converted(s)
    /\ calls[s].before.take = Num(5) /\ calls[s].before.skip = Num(5)
    /\ calls[s].executed.envelope.Results = <<"a">>
    /\ calls[s].outcome = Resolved(Entity("a"))

(* C3: restoration holds on every exit path of single, first and count,    *)
(* also when the execution step throws before any deferred value is        *)
(* obtained (the observer of 'documents queried' throws, rendering throws  *)
(* for unbalanced subclauses, or the submit call throws synchronously):    *)
(* take, skip and the statistics flag end up as before the call.           *)
C3_RestoredOnEveryExitPath ==
  \A s \in Slots :
    (ThrewEarly(s) /\ calls[s].kind \in {"single", "first", "count"})
      => FieldsRestored(s)

(* C4: count submits its query with take = 0 and skip = 0 whatever the     *)
(* paging was, resolves to the TotalResults of the envelope, or to 0 when  *)
(* it is absent (as in the envelope made up for a null response), and      *)
(* afterwards take and skip have their prior values.                       *)
C4_CountTotalResults ==
  \A s \in Slots :
    calls[s].kind = "count" =>
      /\ calls[s].pc = "suspended" \/ Handled(s) => SubmittedWith(s, 0, 0)
      /\ (Handled(s) /\ calls[s].executed.status = "resolved") =>
           LET total == calls[s].executed.envelope.TotalResults IN
           calls[s].outcome = Resolved(IF total = Undefined THEN Num(0) ELSE total)
      /\ (Handled(s) /\ calls[s].response.kind = "null") =>
           calls[s].outcome = Resolved(Num(0))
      /\ (Settled(s) /\ Handled(s)) =>
           _take = calls[s].before.take /\ _skip = calls[s].before.skip

C4_Witness ==
  \E s \in Slots :
    /\ calls[s].kind = "count" /\ Settled(s)
    /\ calls[s].response.kind = "null"
    /\ calls[s].outcome = Resolved(Num(0))
    /\ calls[s].before.take = Num(5) /\ _take = Num(5)
    /\ calls[s].before.skip = Num(5) /\ _skip = Num(5)

(* C5: first submits its query with take = 1 and skip = 0 whatever the     *)
(* paging was, resolves to the first converted entity when the result set  *)
(* is not empty, and resolves to null, never a failure, when the result    *)
(* set is empty or the execution layer returned a null response.           *)
C5_FirstOrNull ==
  \A s \in Slots :
    calls[s].kind = "first" =>
      /\ calls[s].pc = "suspended" \/ Handled(s) => SubmittedWith(s, 1, 0)
      /\ Converted(s) =>
           LET results == calls[s].executed.envelope.Results IN
           /\ Len(results) > 0 => calls[s].outcome = Resolved(Entity(results[1]))
           /\ Len(results) = 0 => calls[s].outcome = Resolved(Null)
      /\ (Handled(s) /\ calls[s].response.kind = "null") =>
           calls[s].outcome = Resolved(Null)

C5_Witness ==
  \E s \in Slots :
    /\ calls[s].kind = "first" /\ Settled(s) /\ Converted(s)
    /\ calls[s].response.kind = "envelope"
    /\ calls[s].executed.envelope.Results = <<>>
    /\ calls[s].before.take = Num(5)
    /\ calls[s].outcome = Resolved(Null)

(* C6: executeQuery fails with the staleness error whenever the envelope   *)
(* has IsStale true, for every terminal call, count included, and whatever *)
(* else the envelope holds; it resolves to an envelope with empty Results  *)
(* and empty Includes for a null response; otherwise it passes the         *)
(* envelope through unchanged.                                             *)
C6_ExecuteQueryOutcome ==
  \A s \in Slots :
    Handled(s) =>
      LET response == calls[s].response
          executed == calls[s].executed
      IN  /\ (response.kind = "envelope" /\ response.body.IsStale = Bool(TRUE)) =>
                /\ executed.status = "rejected" /\ executed.error = StaleError
                /\ calls[s].outcome = Rejected(StaleError)
          /\ response.kind = "null" =>
                /\ executed.status = "resolved"
                /\ executed.envelope.Results = <<>>
                /\ executed.envelope.Includes = <<>>
          /\ (response.kind = "envelope" /\ response.body.IsStale # Bool(TRUE)) =>
                /\ executed.status = "resolved"
                /\ executed.envelope = response.body

C6_Witness ==
  \E s \in Slots :
    /\ Handled(s) /\ calls[s].kind = "count"
    /\ calls[s].response.kind = "envelope"
    /\ calls[s].response.body.IsStale = Bool(TRUE)
    /\ calls[s].response.body.Results = <<"a">>
    /\ calls[s].response.body.TotalResults = Num(2)
    /\ calls[s].outcome = Rejected(StaleError)

(* C7: with statistics mode enabled, all returns the structure {results,   *)
(* response} for every response envelope, an envelope with zero results    *)
(* included, response being the full envelope and results having as many   *)
(* elements as its Results; with statistics mode disabled it returns the   *)
(* plain sequence of entities.                                             *)
C7_AllShapedByStatistics ==
  \A s \in Slots :
    (calls[s].kind = "all" /\ Converted(s)) =>
      LET envelope == calls[s].executed.envelope
          value == calls[s].outcome.value
      IN  /\ calls[s].outcome.status = "resolved"
          /\ Truthy(calls[s].before.withStatistics) =>
               /\ value.t = "pair"
               /\ value.v.response = envelope
               /\ Len(value.v.results) = Len(envelope.Results)
          /\ ~Truthy(calls[s].before.withStatistics) =>
               /\ value.t = "array"
               /\ Len(value.v) = Len(envelope.Results)

(* C8: for every terminal call given a completion callback, the callback   *)
(* is invoked exactly once and with the outcome of the returned deferred   *)
(* value: the same value when it resolves, the same failure when it        *)
(* rejects.                                                                *)
C8_CallbackOnceSameOutcome ==
  \A s \in Slots :
    (Settled(s) /\ calls[s].hasCallback) =>
      calls[s].callbackLog = <<calls[s].outcome>>

(* ======================================================================= *)
(*                     properties of the typed query                       *)
(* ======================================================================= *)
WhereMethods ==
  {"whereEquals", "whereNotEquals", "whereIn", "whereStartsWith", "whereEndsWith",
   "whereBetween", "whereGreaterThan", "whereGreaterThanOrEqual", "whereLessThan",
   "whereLessThanOrEqual"}
RangeMethods ==
  {"whereBetween", "whereGreaterThan", "whereGreaterThanOrEqual", "whereLessThan",
   "whereLessThanOrEqual"}

IsLiteral(value) == value.t \in {"boolean", "number", "string", "null"}

RECURSIVE Leaves(_)
Leaves(value) ==
  IF value.t # "array" THEN {value}
  ELSE UNION {Leaves(value.v[i]) : i \in 1..Len(value.v)}

(* The literals of the argument are the argument itself, or the elements   *)
(* of a value list at any depth.                                           *)
LiteralsOf(arg) == {x \in Leaves(arg) : IsLiteral(x)}

Sentinels == {Str("*"), Str("NULL")}

(* The last fluent call was a where* method that went through.             *)
WhereCallDone == lastCall.method \in WhereMethods /\ lastCall.emitted

(* The builder got names of the table, one per argument, and nothing else. *)
HandedNamesOnly ==
  /\ Len(lastCall.handed) = Len(lastCall.args)
  /\ \A i \in 1..Len(lastCall.handed) : lastCall.handed[i] \in Keys(queryParameters)
  /\ _builder[Len(_builder)].params = lastCall.handed

(* C9 as stated: for every literal of type boolean, number, non-date       *)
(* string or null passed to any where* method, the builder is handed only  *)
(* a parameter name for it and the parameter table holds that literal      *)
(* under that name.                                                        *)
C9_LiteralBoundUnderName ==
  WhereCallDone =>
    /\ HandedNamesOnly
    /\ \A i \in 1..Len(lastCall.args) :
         \A x \in LiteralsOf(lastCall.args[i]) :
           x \in Leaves(ValueOf(queryParameters, lastCall.handed[i]))

(* C9, amended: as above, except that a null passed to a range method      *)
(* (an endpoint of whereBetween, the value of whereGreaterThan[OrEqual] or *)
(* whereLessThan[OrEqual]) is bound as the sentinel string '*' or 'NULL'.  *)
C9_LiteralOrSentinelBoundUnderName ==
  WhereCallDone =>
    /\ HandedNamesOnly
    /\ \A i \in 1..Len(lastCall.args) :
         LET bound == ValueOf(queryParameters, lastCall.handed[i]) IN
         IF lastCall.method \in RangeMethods /\ lastCall.args[i] = Null
         THEN bound \in Sentinels
         ELSE \A x \in LiteralsOf(lastCall.args[i]) : x \in Leaves(bound)

C9_Witness ==
  /\ WhereCallDone
  /\ lastCall.method = "whereBetween"
  /\ lastCall.args = <<Null, Num(18)>>
  /\ Len(_builder) = 2
  /\ _builder[1].method = "whereEquals"
  /\ ValueOf(queryParameters, ParamName(0)) = Str("test")
  /\ lastCall.handed = <<ParamName(1), ParamName(2)>>
  /\ ValueOf(queryParameters, ParamName(2)) = Num(18)

RECURSIVE NamesHanded(_)
NamesHanded(tokens) ==
  IF tokens = <<>> THEN <<>> ELSE Head(tokens).params \o NamesHanded(Tail(tokens))

(* C10: in a typed query, after any sequence of fluent calls, every        *)
(* parameter name handed to the builder is a key of the parameter table,   *)
(* each registration produced a name not already in the table, and the     *)
(* n-th registration is named p(n-1): whereEquals('Name', 'test') followed *)
(* by whereGreaterThan('Price', 10) yields the map {p0: 'test', p1: 10}.   *)
C10_ParameterNames ==
  /\ \A i \in 1..Len(_builder) : \A j \in 1..Len(_builder[i].params) :
       _builder[i].params[j] \in Keys(queryParameters)
  /\ \A n \in 1..Len(queryParameters) : queryParameters[n].name = ParamName(n - 1)
  /\ NamesHanded(_builder) = [n \in 1..Len(queryParameters) |-> queryParameters[n].name]
  /\ (/\ Len(_builder) = 2
      /\ _builder[1].method = "whereEquals"
      /\ queryParameters[1].value = Str("test")
      /\ lastCall.method = "whereGreaterThan"
      /\ lastCall.args = <<Num(10)>>
      /\ lastCall.emitted)
     => toJson(queryParameters) = (ParamName(0) :> Str("test") @@ ParamName(1) :> Num(10))

C10_Witness ==
  /\ Len(_builder) = 2
  /\ _builder[1] = Token("whereEquals", "Name", <<ParamName(0)>>, Bool(FALSE))
  /\ _builder[2] = Token("whereGreaterThan", "Price", <<ParamName(1)>>, Undefined)
  /\ lastCall.args = <<Num(10)>>
  /\ toJson(queryParameters) = (ParamName(0) :> Str("test") @@ ParamName(1) :> Num(10))

(* ======================================================================= *)
(*                 invalid values, sentinels and value lists               *)
(* ======================================================================= *)
SetMethods == {"whereIn", "containsAny", "containsAll"}
FilterMethods == WhereMethods \cup SetMethods

(* Neither null, nor a date, nor a boolean, number or string.              *)
IsInvalid(value) ==
  /\ ~isNull(value)
  /\ value.t \notin {"date", "array"}
  /\ typeof(value) \notin {"boolean", "number", "string"}

HasInvalidArgument ==
  \E i \in 1..Len(lastCall.args) : \E x \in Leaves(lastCall.args[i]) : IsInvalid(x)

C12_BetweenSentinels ==
  (lastCall.method = "whereBetween" /\ ~lastCall.threw) =>
    /\ Len(lastCall.handed) = 2
    /\ Len(queryParameters) = Len(lastCall.before.queryParameters) + 2
    /\ lastCall.args[1] = Null =>
         ValueOf(queryParameters, lastCall.handed[1]) = Str("NULL")
    /\ lastCall.args[2] = Null =>
         ValueOf(queryParameters, lastCall.handed[2]) = Str("*")

(* C13: whereIn, containsAny and containsAll called with a value list that *)
(* is empty, or flattens to empty, hand the builder no clause and leave    *)
(* the query state as before the call.                                     *)
C13_EmptyListAddsNothing ==
  (/\ lastCall.method \in SetMethods
   /\ unpackValuesArray(lastCall.args[1].v) = <<>>) =>
    /\ ~lastCall.emitted
    /\ Bindings = lastCall.before

(* C14: whereIn, containsAny and containsAll register one parameter, bound *)
(* to the flat list of the individually transformed values, nested lists   *)
(* unpacked to any depth and in order.                                     *)
C14_FlatTransformedListBound ==
  (lastCall.method \in SetMethods /\ lastCall.emitted) =>
    /\ Len(lastCall.handed) = 1
    /\ ValueOf(queryParameters, lastCall.handed[1])
         = Arr(transformValuesArray(lastCall.args[1].v).values)

(* ======================================================================= *)
(*                     notifications and submissions                       *)
(* ======================================================================= *)
OfName(events, name) == SelectSeq(events, LAMBDA e : e.name = name)

(* The entities of what a terminal call resolved to.                       *)
EntitiesOf(value) == IF value.t = "pair" THEN value.v.results ELSE value.v

(* C15: during conversion every result document not flagged as a           *)
(* projection triggers exactly one 'document fetched' notification, which  *)
(* carries its conversion result, in result order; a projection triggers   *)
(* none; the returned sequence has one entity per result document,         *)
(* projections included.                                                   *)
C15_FetchedOncePerNonProjection ==
  \A s \in Slots :
    (Converted(s) /\ calls[s].kind \in {"single", "first", "all"}) =>
      LET docs == calls[s].executed.envelope.Results
          kept == SelectSeq(docs, LAMBDA d : ~checkIsProjection(d))
      IN  /\ OfName(calls[s].events, EVENT_DOCUMENT_FETCHED)
                = [i \in 1..Len(kept) |->
                     Event(EVENT_DOCUMENT_FETCHED, convertToDocument(kept[i]))]
          /\ calls[s].kind = "all" =>
                /\ calls[s].outcome.status = "resolved"
                /\ EntitiesOf(calls[s].outcome.value)
                     = [i \in 1..Len(docs) |-> Entity(docs[i])]

C15_Witness ==
  \E s \in Slots :
    /\ Converted(s) /\ calls[s].kind = "all"
    /\ calls[s].executed.envelope.Results = <<"p", "a">>
    /\ OfName(calls[s].events, EVENT_DOCUMENT_FETCHED)
         = <<Event(EVENT_DOCUMENT_FETCHED, convertToDocument("a"))>>
    /\ Len(EntitiesOf(calls[s].outcome.value)) = 2

(* C16: per execution the 'includes fetched' notification is emitted at    *)
(* most once, only when the envelope has an include document and a result  *)
(* document, carries the whole include batch and comes after every         *)
(* 'document fetched' notification; for an empty result set neither        *)
(* notification is emitted.                                                *)
C16_IncludesOnceAfterDocuments ==
  \A s \in Slots :
    calls[s].pc # "idle" =>
      LET events == calls[s].events
          envelope == calls[s].executed.envelope
          included == OfName(events, EVENT_INCLUDES_FETCHED)
      IN  /\ Len(included) <= 1
          /\ Len(included) = 1 =>
                /\ Handled(s) /\ calls[s].executed.status = "resolved"
                /\ Len(envelope.Includes) > 0
                /\ Len(envelope.Results) > 0
                /\ included[1].payload = envelope.Includes
                /\ events[Len(events)].name = EVENT_INCLUDES_FETCHED
          /\ (Handled(s) /\ Len(envelope.Results) = 0) =>
                /\ OfName(events, EVENT_DOCUMENT_FETCHED) = <<>>
                /\ included = <<>>

C16_Witness ==
  \E s \in Slots :
    /\ Settled(s) /\ Converted(s) /\ calls[s].kind = "first"
    /\ calls[s].executed.envelope.Results = <<"a", "a">>
    /\ calls[s].executed.envelope.Includes = <<"i">>
    /\ Names(calls[s].events)
         = <<EVENT_DOCUMENTS_QUERIED, EVENT_DOCUMENT_FETCHED, EVENT_DOCUMENT_FETCHED,
             EVENT_INCLUDES_FETCHED>>

(* C17: every terminal call emits exactly one 'documents queried'          *)
(* notification, before the command is submitted to the execution layer    *)
(* and before any 'document fetched' or 'includes fetched' notification    *)
(* of the call.                                                            *)
C17_QueriedOnceAndFirst ==
  \A s \in Slots :
    calls[s].pc # "idle" =>
      /\ Len(OfName(calls[s].events, EVENT_DOCUMENTS_QUERIED)) = 1
      /\ calls[s].trace[1] = EVENT_DOCUMENTS_QUERIED
      /\ \A i \in 2..Len(calls[s].trace) : calls[s].trace[i] # EVENT_DOCUMENTS_QUERIED

C17_Witness ==
  \E s \in Slots :
    /\ Settled(s) /\ calls[s].kind = "all"
    /\ calls[s].trace
         = <<EVENT_DOCUMENTS_QUERIED, "execute", EVENT_DOCUMENT_FETCHED,
             EVENT_INCLUDES_FETCHED>>

(* C18 as stated: every terminal call submits exactly one command to the   *)
(* execution layer, whatever its outcome.                                  *)
C18_ExactlyOneSubmission ==
  \A s \in Slots : Settled(s) => Len(calls[s].commands) = 1

(* The call threw before it reached the submission of its command.         *)
ThrewBeforeSubmit(s) ==
  calls[s].outcome \in {Rejected("observer threw"), Rejected("render threw")}

(* C18, amended: a terminal call never submits more than one command,      *)
(* whatever the execution layer answers, and submits exactly one unless it *)
(* threw before reaching the submission (the observer or the rendering     *)
(* threw).                                                                 *)
C18_OneSubmissionUnlessThrewBefore ==
  \A s \in Slots :
    calls[s].pc # "idle" =>
      /\ Len(calls[s].commands) <= 1
      /\ Len(calls[s].commands) = 0 <=> ThrewBeforeSubmit(s)
      /\ Cardinality({i \in 1..Len(calls[s].trace) : calls[s].trace[i] = "execute"})
           = Len(calls[s].commands)

C18_Witness ==
  \E s \in Slots :
    /\ Settled(s) /\ calls[s].kind = "single"
    /\ calls[s].response.kind = "envelope"
    /\ calls[s].response.body.IsStale = Bool(TRUE)
    /\ calls[s].outcome = Rejected(StaleError)
    /\ Len(calls[s].commands) = 1

(* ======================================================================= *)
(*                        descriptors and reuse                            *)
(* ======================================================================= *)
(* C19: getIndexQuery() changes nothing in the query object (parameter     *)
(* table, take, skip, statistics flag, freshness options), so a call that  *)
(* follows another returns an equal descriptor; the descriptor carries the *)
(* stored take and skip, take being the max 32-bit integer when take is    *)
(* null and skip being 0 when skip is null; take(n) and skip(n) change     *)
(* nothing but the field they store n in.                                  *)
C19_GetIndexQueryChangesNothing ==
  [][/\ returned' # returned =>
          /\ UNCHANGED <<_take, _skip, withStatistics, queryParameters, _builder,
                         indexQueryOptions, calls, lastCall>>
          /\ returned'[1].found = QueryState
          /\ returned'[1].descriptor.take = (IF _take = Null THEN MAX_INT32 ELSE _take.v)
          /\ returned'[1].descriptor.skip = (IF _skip = Null THEN 0 ELSE _skip.v)
          /\ returned'[1].descriptor.queryParameters = toJson(queryParameters)
          /\ returned'[1].again => returned'[1].descriptor = returned[1].descriptor
     /\ _take' # _take =>
          UNCHANGED <<_skip, withStatistics, queryParameters, _builder,
                      indexQueryOptions, calls, lastCall, returned>>
     /\ _skip' # _skip =>
          UNCHANGED <<_take, withStatistics, queryParameters, _builder,
                      indexQueryOptions, calls, lastCall, returned>>
    ]_vars

C19_Witness ==
  /\ returned # <<>>
  /\ returned[1].again
  /\ returned[1].found = QueryState
  /\ _take = Num(0) /\ _skip = Null
  /\ indexQueryOptions # NoOptions
  /\ Len(queryParameters) = 1
  /\ returned[1].descriptor.take = 0
  /\ returned[1].descriptor.skip = 0

(* The parameter table a fluent call found is the start of the table now.  *)
TableOnlyGrew ==
  /\ Len(lastCall.before.queryParameters) <= Len(queryParameters)
  /\ SubSeq(queryParameters, 1, Len(lastCall.before.queryParameters))
       = lastCall.before.queryParameters

(* The bindings are those the call in slot s found.                        *)
BindingsKept(s) == Bindings = calls[s].bindings

(* The parameter map and paging of a descriptor built now are those of a   *)
(* descriptor built before the call in slot s.                             *)
SameDescriptorAsBefore(s) ==
  LET now == getIndexQuery(_builder, queryParameters, _take, _skip)
      then == getIndexQuery(calls[s].bindings._builder,
                            calls[s].bindings.queryParameters,
                            calls[s].before.take, calls[s].before.skip)
  IN  /\ now.queryParameters = then.queryParameters
      /\ now.take = then.take
      /\ now.skip = then.skip

(* C20: no terminal call, whether it succeeds or fails, removes or changes *)
(* a parameter binding or an accumulated clause, and once it has completed *)
(* the parameter map and paging of the next descriptor equal those of a    *)
(* descriptor built before it; the parameter table only grows across the   *)
(* fluent calls of a typed query.                                          *)
C20_ReusableAfterTerminalCalls ==
  /\ \A s \in Slots : calls[s].pc # "idle" => BindingsKept(s)
  /\ \A s \in Slots : Settled(s) => SameDescriptorAsBefore(s)
  /\ TableOnlyGrew

(* ======================================================================= *)
(*                      the two forms of a condition                       *)
(* ======================================================================= *)
OtherForm(form) == IF form = "positional" THEN "params" ELSE "positional"

(* C21: for whereEquals and whereNotEquals the structured-parameter form   *)
(* and the positional form behave identically: from the same query state   *)
(* and with the same field name, value and exact flag, what a call in one  *)
(* form did is what the other form does: the same parameter name bound to  *)
(* the same transformed value, the same clause handed to the builder, the  *)
(* same failure on an unsupported value.                                   *)
C21_FormsBehaveIdentically ==
  lastCall.method \in {"whereEquals", "whereNotEquals"} =>
    LET whereParams == toWhereParams(OtherForm(lastCall.form), lastCall.fieldName,
                                     lastCall.args[1], lastCall.exact)
        transformedValue == transformValue(whereParams.value)
        r == RegisterAll(lastCall.before.queryParameters, <<transformedValue.value>>)
    IN  /\ lastCall.threw = transformedValue.threw
        /\ lastCall.threw => Bindings = lastCall.before
        /\ ~lastCall.threw =>
              /\ queryParameters = r.params
              /\ lastCall.handed = r.names
              /\ _builder = Append(lastCall.before._builder,
                                   Token(lastCall.method, whereParams.fieldName,
                                         r.names, whereParams.exact))

C21_Witness ==
  /\ lastCall.method = "whereNotEquals"
  /\ lastCall.form = "params"
  /\ lastCall.args = <<DateOf("2018-01-01T00:00:00.0000000")>>
  /\ lastCall.exact = Bool(TRUE)
  /\ lastCall.handed = <<ParamName(1)>>
  /\ ValueOf(queryParameters, ParamName(1)) = Str("2018-01-01T00:00:00.0000000")
  /\ _builder[2] = Token("whereNotEquals", "Price", <<ParamName(1)>>, Bool(TRUE))

(* ======================= properties of the command ===================== *)
Payloads == {NoObject, NullObject, Plain(EmptyObject), Plain([k \in {"id"} |-> "x"])}
ParamObjects == {Plain(o) : o \in Objects}
AddedParams == {NoObject, NullObject} \cup {Plain([k \in K |-> "y"]) : K \in SUBSET ObjectKeys}

InitCommand ==
  /\ Created(NoCreateOptions)
  /\ \E params \in {NoObject, NullObject} \cup ParamObjects, payload \in Payloads :
       command = NewCommand(params, payload)
  /\ commandCall = NoCommandCall

NextCommand ==
  \/ \E node \in ServerNodes : addFailedNode(node)
  \/ wasFailedCall
  \/ \E node \in ServerNodes : wasFailedWithNodeCall(node)
  \/ toRequestOptionsCall
  \/ \E response \in CommandResponses : setResponse(response)
  \/ \E params \in AddedParams : addParams(params)
  \/ \E names \in SUBSET ObjectKeys : removeParams(names)

SpecCommand == InitCommand /\ [][NextCommand]_vars

(* C22: the failed nodes of a command are a grow-only set: the set is      *)
(* exactly the nodes addFailedNode was called with (empty for a new        *)
(* command), wasFailed answers whether there was such a call,              *)
(* wasFailedWithNode(n) whether there was one with n, adding a node that   *)
(* is in the set leaves the command as it was, and no operation makes the  *)
(* set lose a node.                                                        *)
C22_FailedNodesGrowOnly ==
  /\ command.failedNodes = commandCall.added
  /\ commandCall.method = "none" => command.failedNodes = {}
  /\ commandCall.method = "wasFailed" =>
       commandCall.result = Bool(commandCall.added # {})
  /\ commandCall.method = "wasFailedWithNode" =>
       commandCall.result = Bool(commandCall.node \in commandCall.added)
  /\ (commandCall.method = "addFailedNode"
        /\ commandCall.node \in commandCall.before.failedNodes) =>
       command = commandCall.before
  /\ commandCall.method # "none" =>
       commandCall.before.failedNodes \subseteq command.failedNodes

(* A node that was in the set was added again, next to another node. *)
C22_Witness ==
  /\ commandCall.method = "addFailedNode"
  /\ commandCall.node \in commandCall.before.failedNodes
  /\ Cardinality(command.failedNodes) = 2
  /\ wasFailedWithNode(command, commandCall.node)

(* C23: setResponse(response) leaves the response as the last response of  *)
(* the command whether the validation throws or not; when it does not      *)
(* throw, it returns the body if there is one and undefined if the body    *)
(* is undefined, null or empty.                                            *)
C23_ResponseRecordedAlways ==
  commandCall.method = "setResponse" =>
    /\ command._lastResponse = commandCall.response
    /\ commandCall.threw = commandCall.response.rejected
    /\ ~commandCall.threw =>
         commandCall.result =
           IF commandCall.response.body \in {Undefined, Null, Str("")}
           THEN Undefined
           ELSE commandCall.response.body

(* A rejected response replaced an earlier one as the last response. *)
C23_Witness ==
  /\ commandCall.method = "setResponse"
  /\ commandCall.threw
  /\ commandCall.before._lastResponse.given
  /\ commandCall.before._lastResponse # commandCall.response
  /\ command._lastResponse = commandCall.response

(* A response without a body passed the validation: undefined is returned. *)
C23_WitnessNoBody ==
  /\ commandCall.method = "setResponse"
  /\ ~commandCall.threw
  /\ commandCall.response.body = Undefined
  /\ commandCall.result = Undefined

(* C24: toRequestOptions() leaves the command as it was, and its options   *)
(* have the key qs exactly when the params have a key and the key body     *)
(* exactly when the payload is an object with a key.                       *)
C24_RequestOptionsProjection ==
  commandCall.method = "toRequestOptions" =>
    /\ command = commandCall.before
    /\ "qs" \in commandCall.options.keys <=>
         (command.params.kind = "object" /\ DOMAIN command.params.fields # {})
    /\ "body" \in commandCall.options.keys <=>
         (command.payload.kind = "object" /\ DOMAIN command.payload.fields # {})
    /\ "qs" \in commandCall.options.keys => commandCall.options.qs = command.params
    /\ "body" \in commandCall.options.keys => commandCall.options.body = command.payload

(* Options of a command with an empty payload object and some params. *)
C24_Witness ==
  /\ commandCall.method = "toRequestOptions"
  /\ command.payload = Plain(EmptyObject)
  /\ "qs" \in commandCall.options.keys
  /\ "body" \notin commandCall.options.keys
  /\ command.failedNodes # {}

(* ===================== properties of the wait options ================== *)
(* The options a waitForNonStaleResults* call leaves on a new query.       *)
AloneOnNewQuery(wait) ==
  CASE wait.method = "waitForNonStaleResults" -> assign(NoOptions, nonStaleOptions)
    [] wait.method = "waitForNonStaleResultsAsOf" ->
         assign(NoOptions, asOfOptions(wait.args[1], wait.args[2]))
    [] wait.method = "waitForNonStaleResultsAsOfNow" ->
         assign(NoOptions, asOfNowOptions(wait.args[1]))
    [] OTHER -> NoOptions

(* C29: after any sequence of waitForNonStaleResults* calls the options    *)
(* (wait flag, as-of-now flag, cut-off etag, timeout) are the ones the     *)
(* last call of the sequence leaves on a new query.                        *)
C29_OptionsOfLastCall ==
  lastWait.method # "none" => indexQueryOptions = AloneOnNewQuery(lastWait)

(* ================= properties of index and collection name ============= *)
IndexNames == {Undefined, Null, Str(""), Str("Orders/ByName")}
CollectionNames == {Undefined, Null, Str(""), Str("Products")}

(* Every way of creating a query: no options, or options with or without   *)
(* an index name, a collection and the statistics flag.                    *)
InitNames ==
  /\ \E given \in BOOLEAN, ws \in {Undefined, Bool(TRUE)},
        indexName \in IndexNames, collection \in CollectionNames :
       Created(IF given THEN CreateOptions(TRUE, ws, indexName, collection)
               ELSE NoCreateOptions)
  /\ command = NewCommand(NoObject, NoObject)
  /\ commandCall = NoCommandCall

NameResponses == {r \in Responses : r.kind # "envelope"}

NextNames ==
  \/ NoCallInFlight /\ take(Num(5))
  \/ NoCallInFlight /\ Len(_builder) < MaxTokens
       /\ whereEquals("positional", "Name", Str("test"), Undefined)
  \/ NoCallInFlight /\ waitForNonStaleResultsAsOfNow(Undefined)
  \/ NoCallInFlight /\ count(FALSE, "none")
  \/ NoCallInFlight /\ all(FALSE, "none")
  \/ \E s \in Slots, response \in NameResponses : Respond(s, response)
  \/ \E s \in Slots : Finally(s)
  \/ \E s \in Slots : Await(s)

SpecNames == InitNames /\ [][NextNames]_vars

IndexNameGiven == created.given /\ Truthy(created.indexName)
CollectionGiven == created.given /\ Truthy(created.collection)

(* C30: in every state exactly one of index name and collection name is    *)
(* non-null: with an index name given the index name is that name and the  *)
(* collection name is null, whatever collection was given; with none the   *)
(* index name is null and the collection name is the given collection, or  *)
(* '@all_docs' when none was given. Fluent, paging, wait and terminal      *)
(* calls leave both as the constructor set them.                           *)
C30_ExactlyOneName ==
  /\ (_indexName = Null) # (_collectionName = Null)
  /\ IndexNameGiven => _indexName = created.indexName /\ _collectionName = Null
  /\ ~IndexNameGiven =>
       /\ _indexName = Null
       /\ _collectionName = IF CollectionGiven THEN created.collection ELSE ALL_DOCS

(* A query created with both an index name and a collection, after a       *)
(* fluent call and a settled terminal call.                                *)
C30_Witness ==
  /\ IndexNameGiven
  /\ CollectionGiven
  /\ _collectionName = Null
  /\ _builder # <<>>
  /\ \E s \in Slots : calls[s].pc = "done"

(* ================ terminal calls on one object that overlap ============ *)
(* A first terminal call, and a second one started while the first is      *)
(* suspended at the execution layer; their commands settle in any order.   *)
Overlapping ==
  \/ NoCallInFlight
  \/ calls[1].pc = "suspended" /\ calls[2].pc = "idle"

(* The handlers of a settled command run to the end of the chain before   *)
(* the next command settles.                                               *)
NoHandlerPending == \A s \in Slots : calls[s].pc # "finally"

OverlapResponses ==
  {r \in Responses :
     \/ r.kind # "envelope"
     \/ /\ r.body.IsStale = Bool(FALSE)
        /\ r.body.Includes = <<>>
        /\ r.body.Results \in {<<"a">>, <<"a", "p">>}}

NextOverlap ==
  \/ \E n \in TakeVals : NoCallInFlight /\ take(n)
  \/ \E n \in SkipVals : NoCallInFlight /\ skip(n)
  \/ Overlapping /\ single(FALSE, "none")
  \/ Overlapping /\ first(FALSE, "none")
  \/ Overlapping /\ count(FALSE, "none")
  \/ Overlapping /\ all(FALSE, "none")
  \/ \E s \in Slots, response \in OverlapResponses :
       NoHandlerPending /\ Respond(s, response)
  \/ \E s \in Slots : Finally(s)

SpecOverlap == Init /\ [][NextOverlap]_vars

Scoped == {"single", "first", "count"}

(* C26: two calls among single/first/count, the second started while the  *)
(* first was suspended: once both have settled, in either order, take,     *)
(* skip and the statistics flag are what they were before the first call.  *)
C26_RestoredAfterOverlap ==
  (/\ calls[1].kind \in Scoped /\ Settled(1)
   /\ calls[2].kind \in Scoped /\ Settled(2))
    => Current = calls[1].before

NonEmpty(s) ==
  /\ calls[s].response.kind = "envelope"
  /\ Len(calls[s].response.body.Results) > 0

(* C27: with statistics enabled at creation, an all() that got a non-empty *)
(* response returns the pair {results, response}, also when a single() or  *)
(* first() was in flight when it was called or when its response was       *)
(* converted; and a first(), or a single() that got one result, returns    *)
(* the first entity of its response also when another call settled while   *)
(* it was suspended.                                                       *)
C27_ShapeKeptUnderOverlap ==
  \A s \in Slots :
    (Handled(s) /\ NonEmpty(s)) =>
      /\ (calls[s].kind = "all" /\ Truthy(created.withStatistics)) =>
           /\ calls[s].outcome.status = "resolved"
           /\ calls[s].outcome.value.t = "pair"
      /\ (\/ calls[s].kind = "first"
          \/ calls[s].kind = "single" /\ Len(calls[s].response.body.Results) = 1) =>
           calls[s].outcome = Resolved(Entity(calls[s].response.body.Results[1]))

(* ============ calls made while a terminal call is suspended ============ *)
(* At most two terminal calls are in flight at a time.                     *)
OneMoreCall == Cardinality(Slots \ FreeSlots) < 2

NextSuspended ==
  \/ take(Num(5))
  \/ skip(Num(5))
  \/ Len(_builder) < MaxTokens
       /\ whereEquals("positional", "Name", Str("test"), Undefined)
  \/ OneMoreCall /\ single(FALSE, "none")
  \/ OneMoreCall /\ count(FALSE, "none")
  \/ OneMoreCall /\ all(FALSE, "none")
  \/ \E s \in Slots, response \in NameResponses :
       NoHandlerPending /\ Respond(s, response)
  \/ \E s \in Slots : Finally(s)

SpecSuspended == Init /\ [][NextSuspended]_vars

(* The command a call submitted.                                           *)
Submitted(s) == calls[s].commands[1]

(* take and skip of the descriptor of a call of this kind made with these  *)
(* fields in effect.                                                       *)
PagingOf(kind, fields) ==
  CASE kind = "single" -> [take |-> 2, skip |-> 0]
    [] kind = "first" -> [take |-> 1, skip |-> 0]
    [] kind = "count" -> [take |-> 0, skip |-> 0]
    [] OTHER ->
         [take |-> IF fields.take \in {Null, Undefined} THEN MAX_INT32 ELSE fields.take.v,
          skip |-> IF fields.skip \in {Null, Undefined} THEN 0 ELSE fields.skip.v]

(* C28: a suspended call has submitted its command, and the command of a   *)
(* call keeps, whatever is called on the query afterwards, the paging in   *)
(* effect when the call was made with the call's own forced take and skip, *)
(* and the parameters registered when the call was made.                   *)
C28_DescriptorBuiltBeforeSuspending ==
  \A s \in Slots :
    /\ calls[s].pc = "suspended" => Len(calls[s].commands) = 1
    /\ calls[s].commands # <<>> =>
         /\ Submitted(s).take = PagingOf(calls[s].kind, calls[s].before).take
         /\ Submitted(s).skip = PagingOf(calls[s].kind, calls[s].before).skip
         /\ DOMAIN Submitted(s).queryParameters = Keys(calls[s].bindings.queryParameters)
         /\ Submitted(s).queryParameters = toJson(calls[s].bindings.queryParameters)

(* While a single() is suspended, take and skip were changed, a parameter  *)
(* was registered and another terminal call was started.                   *)
C28_Witness ==
  /\ calls[1].pc = "suspended"
  /\ calls[1].kind = "single"
  /\ calls[2].pc = "suspended"
  /\ _take = Num(5)
  /\ _skip = Num(5)
  /\ Submitted(1).take = 2
  /\ Submitted(1).skip = 0
  /\ Keys(queryParameters) # DOMAIN Submitted(1).queryParameters

(* ============================ the raw query ============================ *)
RawNames == {"name", "p0"}
RawValues ==
  {Str("test"), DateOf("2018-01-01T00:00:00.0000000"), Obj, Arr(<<Num(1), Obj>>)}
RawTexts == {"from Products where Name = $name and Age > $p0"}

(* RawDocumentQuery.rawQuery(query): the text goes to the builder as it is. *)
rawQuery(query) ==
  /\ Len(_builder) < MaxTokens
  /\ _builder' = Append(_builder, Token("rawQuery", query, <<>>, Undefined))
  /\ lastCall' = [NoCall EXCEPT !.method = "rawQuery", !.form = "raw",
                                !.fieldName = query, !.emitted = TRUE,
                                !.before = Bindings]
  /\ UNCHANGED <<_take, _skip, withStatistics, queryParameters, calls,
                 indexQueryOptions, returned, lastWait, nameVars, commandVars>>

(* A set() that stringifies a date the way the typed query does.           *)
queryParametersSetStringified(params, name, value) ==
  MapSet(params, name, IF value.t = "date" THEN DateUtilStringify(value) ELSE value)

(* this.queryParameters.set(name, value) *)
queryParametersSet(params, name, value) == MapSet(params, name, value)

(* RawDocumentQuery.addParameter(name, value) *)
addParameter(name, value) ==
  /\ queryParameters' = queryParametersSet(queryParameters, name, value)
  /\ lastCall' = [NoCall EXCEPT !.method = "addParameter", !.form = "raw",
                                !.fieldName = name, !.args = <<value>>,
                                !.before = Bindings]
  /\ UNCHANGED <<_take, _skip, withStatistics, _builder, calls,
                 indexQueryOptions, returned, lastWait, nameVars, commandVars>>

NextRaw ==
  \/ \E query \in RawTexts : rawQuery(query)
  \/ \E name \in RawNames, value \in RawValues : addParameter(name, value)
  \/ getIndexQueryCall

SpecRaw == Init /\ [][NextRaw]_vars

(* C25: addParameter(name, value) never throws and leaves the value, as    *)
(* given, bound to the name as given: a binding of that name is replaced,  *)
(* the other bindings and the query text stay. So the table holds one      *)
(* binding for each name the caller registered, and the parameter map of a *)
(* descriptor has exactly these names with these values.                   *)
C25_RawParameterStoredAsGiven ==
  /\ Len(queryParameters) = Cardinality(Keys(queryParameters))
  /\ Keys(queryParameters) \subseteq RawNames
  /\ lastCall.method = "addParameter" =>
       /\ ~lastCall.threw
       /\ Keys(queryParameters) =
            Keys(lastCall.before.queryParameters) \cup {lastCall.fieldName}
       /\ ValueOf(queryParameters, lastCall.fieldName) = lastCall.args[1]
       /\ \A k \in Keys(queryParameters) \ {lastCall.fieldName} :
            ValueOf(queryParameters, k) = ValueOf(lastCall.before.queryParameters, k)
       /\ _builder = lastCall.before._builder
  /\ returned # NothingReturned =>
       /\ DOMAIN returned[1].descriptor.queryParameters =
            Keys(returned[1].found.queryParameters)
       /\ \A k \in Keys(returned[1].found.queryParameters) :
            returned[1].descriptor.queryParameters[k] =
              ValueOf(returned[1].found.queryParameters, k)

(* A date replaced the binding of a name next to a binding of an object,   *)
(* and a descriptor was built with both names.                             *)
C25_Witness ==
  /\ lastCall.method = "addParameter"
  /\ lastCall.fieldName \in Keys(lastCall.before.queryParameters)
  /\ lastCall.args[1].t = "date"
  /\ ValueOf(queryParameters, lastCall.fieldName) # ValueOf(lastCall.before.queryParameters, lastCall.fieldName)
  /\ \E k \in Keys(queryParameters) : ValueOf(queryParameters, k) = Obj
  /\ returned # NothingReturned
  /\ DOMAIN returned[1].descriptor.queryParameters = RawNames

====
